---- MODULE Spec2Model ----
(***************************************************************************)
(* Order store, order controller and offline-sync reconciler of the        *)
(* DrinkQuick back end (src/controllers/auth.controller.js, second half,   *)
(* and src/models/Order.model.js), with its drink catalogue                *)
(* (src/controllers/user.controller.js) and its accounts.                  *)
(*                                                                         *)
(* A document is a function from the names of the fields it has to their   *)
(* values, so that "field absent" (undefined in JavaScript) is "name not   *)
(* in DOMAIN".  Object spread and $set are the function override Merge.    *)
(***************************************************************************)
EXTENDS Integers, Sequences, FiniteSets, TLC

VARIABLES orders, drinks, users, now, req, resp, sync

vars == <<orders, drinks, users, now, req, resp, sync>>

(***************************************************************************)
(* Bounds of the model.                                                    *)
(***************************************************************************)
MaxTime == 1
MaxBatch == 2
MaxDrinks == 4
AuthMaxTime == 4

(***************************************************************************)
(* Users (req.user set by the protect middleware) and their roles.         *)
(***************************************************************************)
Users == {"u1", "u2"}

role == [u \in Users |-> IF u = "u2" THEN "Administrator" ELSE "Staff"]

EmptyDoc == [f \in {} |-> 0]

Has(d, f) == f \in DOMAIN d

\* {...a, ...b}: the fields of b override those of a
Merge(a, b) == b @@ a

\* the document {f: d[f]} if d has f, the empty document otherwise
Opt(d, f) == IF Has(d, f) THEN f :> d[f] ELSE EmptyDoc

\* one entry of an order's items (orderItemSchema)
Item(d, n, q, p, tp) ==
    [drink |-> d, drinkName |-> n, quantity |-> q, pricePerUnit |-> p, totalPrice |-> tp]

RECURSIVE SumTotalPrice(_)
SumTotalPrice(items) ==
    IF items = <<>> THEN 0
    ELSE Head(items).totalPrice + SumTotalPrice(Tail(items))

(***************************************************************************)
(* The Order schema (src/models/Order.model.js).                           *)
(***************************************************************************)
StatusEnum == {"pending", "completed", "cancelled", "refunded"}

SyncStatusEnum == {"synced", "pending", "conflict"}

\* the schema's default values, given to the fields a new document lacks
SchemaDefaults ==
    [items |-> <<>>, paymentMethod |-> "cash", status |-> "completed",
     receiptPrinted |-> FALSE, discount |-> 0, tax |-> 0,
     syncStatus |-> "synced", emailSent |-> FALSE]

RequiredFields == {"orderNumber", "user", "totalAmount", "amountPaid", "balance"}

PaymentMethodEnum == {"cash", "card", "mobile", "other"}

ItemValid(it) == it.quantity >= 1 /\ it.pricePerUnit >= 0 /\ it.totalPrice >= 0

\* the min and enum validators of the fields d has
FieldsValid(d) ==
    /\ Has(d, "totalAmount") => d.totalAmount >= 0
    /\ Has(d, "amountPaid") => d.amountPaid >= 0
    /\ Has(d, "discount") => d.discount >= 0
    /\ Has(d, "tax") => d.tax >= 0
    /\ Has(d, "subtotal") => d.subtotal >= 0
    /\ Has(d, "paymentMethod") => d.paymentMethod \in PaymentMethodEnum
    /\ Has(d, "status") => d.status \in StatusEnum
    /\ Has(d, "syncStatus") => d.syncStatus \in SyncStatusEnum
    /\ Has(d, "items") => \A i \in 1..Len(d.items) : ItemValid(d.items[i])

\* document validation before a save: required fields, then the field validators
Validate(d) == RequiredFields \subseteq DOMAIN d /\ FieldsValid(d)

\* the two random suffixes of one save, drawn together
Draws == 1..2

GenOrderNumber(rnd) == <<"ORD-1", "ORD-2">>[rnd]

GenReceiptNumber(rnd) == <<"REC-1", "REC-2">>[rnd]

\* orderSchema.pre('save'): numbers when absent, then subtotal and balance
PreSave(d, rnd) ==
    LET d1 == IF Has(d, "orderNumber") THEN d
              ELSE Merge(d, "orderNumber" :> GenOrderNumber(rnd))
        d2 == IF Has(d1, "receiptNumber") THEN d1
              ELSE Merge(d1, "receiptNumber" :> GenReceiptNumber(rnd))
        sub == SumTotalPrice(d2.items)
    IN  Merge(d2, [subtotal |-> sub,
                   balance |-> d2.amountPaid - (sub - d2.discount + d2.tax)])

\* the key a unique index holds for a document: a missing field indexes as null
IndexKey(d, f) == IF Has(d, f) THEN d[f] ELSE "null"

\* the unique indexes on orderNumber and receiptNumber, and the sparse one on
\* localId, for document d stored (or to be stored) under id
UniqueOk(os, id, d) ==
    \A j \in (DOMAIN os) \ {id} :
        /\ IndexKey(os[j], "orderNumber") # IndexKey(d, "orderNumber")
        /\ IndexKey(os[j], "receiptNumber") # IndexKey(d, "receiptNumber")
        /\ (Has(d, "localId") /\ Has(os[j], "localId")) => os[j].localId # d.localId

\* the _id of a new document: an id no stored document has (an ObjectId is never
\* one of the stored ones; the smallest free number keeps the ids bounded)
NextId(os) == CHOOSE i \in 1..(Cardinality(DOMAIN os) + 1) :
                 /\ i \notin DOMAIN os
                 /\ \A j \in 1..(i - 1) : j \in DOMAIN os

Put(os, id, d) == [j \in (DOMAIN os) \cup {id} |-> IF j = id THEN d ELSE os[j]]

\* Order.create(data) = new Order(data).save(): the built-in validation hook runs
\* first, then the timestamps and the schema's pre('save') hook, then the insert
OrderCreate(os, data, t, rnd) ==
    LET d0 == Merge(SchemaDefaults, data)
        d1 == Merge(PreSave(d0, rnd), "updatedAt" :> t)
        id == NextId(os)
    IN  IF ~Validate(d0) THEN [ok |-> FALSE, error |-> "ValidationError"]
        ELSE IF ~UniqueOk(os, id, d1) THEN [ok |-> FALSE, error |-> "E11000"]
        ELSE [ok |-> TRUE, id |-> id, orders |-> Put(os, id, d1)]

\* Order.findByIdAndUpdate(id, update, {new: true, runValidators}): $set of the
\* update's fields, no save hook; the timestamps plugin stamps updatedAt itself
FindByIdAndUpdate(os, id, upd, t, runValidators) ==
    LET d == Merge(Merge(os[id], upd), "updatedAt" :> t)
    IN  IF runValidators /\ ~FieldsValid(upd) THEN [ok |-> FALSE, error |-> "ValidationError"]
        ELSE IF ~UniqueOk(os, id, d) THEN [ok |-> FALSE, error |-> "E11000"]
        ELSE [ok |-> TRUE, id |-> id, orders |-> Put(os, id, d)]

\* one condition {f: data[f]} of a query: an undefined value is sent as null,
\* which matches the documents that lack the field
FieldMatches(d, data, f) ==
    IF Has(data, f) THEN Has(d, f) /\ d[f] = data[f] ELSE ~Has(d, f)

\* Order.findOne({$or: [{localId}, {orderNumber}]}): the ids of the matching
\* documents; which of several the store returns is the caller's pick
FindOneMatches(os, data) ==
    {id \in DOMAIN os : FieldMatches(os[id], data, "localId")
                        \/ FieldMatches(os[id], data, "orderNumber")}

Min(S) == CHOOSE x \in S : \A y \in S : x <= y

Max(S) == CHOOSE x \in S : \A y \in S : x >= y

Picks == {"first", "last"}

Pick(S, pick) == IF pick = "first" THEN Min(S) ELSE Max(S)

(***************************************************************************)
(* syncBulkOrders (src/controllers/auth.controller.js 1286-1374).          *)
(***************************************************************************)
Null == [null |-> TRUE]

IsNull(x) == Has(x, "null")

NoResults == [created |-> <<>>, updated |-> <<>>, conflicts |-> <<>>, errors |-> <<>>]

\* new Date(orderData.updatedAt) is an Invalid Date when the field is absent, and
\* every comparison with it is false
ServerNewer_Mut(existing, orderData) ==
    Has(orderData, "updatedAt") /\ existing.updatedAt >= orderData.updatedAt

ServerNewer(existing, orderData) ==
    Has(orderData, "updatedAt") /\ existing.updatedAt > orderData.updatedAt

SyncStamp_Mut(u, t) == [user |-> u, lastSynced |-> t]

SyncStamp(u, t) == [user |-> u, lastSynced |-> t, syncStatus |-> "synced"]

\* the body of the for loop for one record; acc is [orders, results, thrown]
SyncOne(acc, orderData, u, t, pick, rnd) ==
    IF IsNull(orderData)
    THEN \* orderData.localId throws in the try block and again in the catch
         [acc EXCEPT !.thrown = TRUE]
    ELSE
    LET os == acc.orders
        res == acc.results
        found == FindOneMatches(os, orderData)
        lid == Opt(orderData, "localId")
    IN  IF found # {}
        THEN LET id == Pick(found, pick)
             IN  IF ServerNewer(os[id], orderData)
                 THEN [acc EXCEPT !.results.conflicts = Append(res.conflicts,
                          Merge([serverId |-> id, conflict |-> "server_newer",
                                 serverData |-> os[id]], lid))]
                 ELSE LET r == FindByIdAndUpdate(os, id,
                                   Merge(orderData, SyncStamp(u, t)), t, FALSE)
                      IN  IF r.ok
                          THEN [acc EXCEPT !.orders = r.orders,
                                   !.results.updated = Append(res.updated,
                                       Merge([serverId |-> r.id], lid))]
                          ELSE [acc EXCEPT !.results.errors = Append(res.errors,
                                       Merge([error |-> r.error], lid))]
        ELSE LET r == OrderCreate(os, Merge(orderData, SyncStamp(u, t)), t, rnd)
             IN  IF r.ok
                 THEN [acc EXCEPT !.orders = r.orders,
                          !.results.created = Append(res.created,
                              Merge([serverId |-> r.id], lid))]
                 ELSE [acc EXCEPT !.results.errors = Append(res.errors,
                              Merge([error |-> r.error], lid))]

\* the suffix drawn by the i-th save of a request whose first draw is rnd
DrawAt(rnd, i) == ((rnd + i) % Cardinality(Draws)) + 1

\* the for loop over req.body.orders, from record i on
RECURSIVE SyncLoop(_, _, _, _, _, _, _)
SyncLoop(acc, batch, i, u, t, pick, rnd) ==
    IF i > Len(batch) \/ acc.thrown THEN acc
    ELSE SyncLoop(SyncOne(acc, batch[i], u, t, pick, DrawAt(rnd, i)),
                  batch, i + 1, u, t, pick, rnd)

(***************************************************************************)
(* Two syncBulkOrders handlers running at once, each on a batch of one     *)
(* record; a handler gives way to the other at its awaits: after findOne   *)
(* (line 1307) and after the write (lines 1326, 1342).                     *)
(***************************************************************************)
Procs == {"a", "b"}

Idle == [pc |-> "idle"]

\* the handler of p is called with one record
SyncStart(p, u, rec) ==
    /\ sync[p].pc = "idle"
    /\ sync' = [sync EXCEPT ![p] = [pc |-> "start", user |-> u, rec |-> rec]]
    /\ UNCHANGED <<orders, drinks, now, req, resp, users>>

\* await Order.findOne(...): existingOrder is the document as stored now
SyncFind(p, pick) ==
    /\ sync[p].pc = "start"
    /\ LET found == FindOneMatches(orders, sync[p].rec)
       IN  sync' = [sync EXCEPT ![p] =
               IF found = {}
               THEN [pc |-> "found", user |-> @.user, rec |-> @.rec, id |-> 0]
               ELSE [pc |-> "found", user |-> @.user, rec |-> @.rec,
                     id |-> Pick(found, pick),
                     existingOrder |-> orders[Pick(found, pick)]]]
    /\ UNCHANGED <<orders, drinks, now, req, resp, users>>

ComparedOrder_Mut(existingOrder, stored) == stored

\* the document the conflict check of line 1316 reads: existingOrder, not the
\* document as stored when the check runs
ComparedOrder(existingOrder, stored) == existingOrder

\* the rest of the loop body: the conflict check, then the write on the store
\* as it is now
SyncWrite(p, rnd) ==
    /\ sync[p].pc = "found"
    /\ LET st == sync[p]
           data == Merge(st.rec, SyncStamp(st.user, now))
           r == IF st.id = 0 THEN OrderCreate(orders, data, now, rnd)
                ELSE FindByIdAndUpdate(orders, st.id, data, now, FALSE)
           conflict == st.id # 0
                       /\ ServerNewer(ComparedOrder(st.existingOrder, orders[st.id]), st.rec)
           outcome == IF conflict THEN "conflicts"
                      ELSE IF ~r.ok THEN "errors"
                      ELSE IF st.id = 0 THEN "created" ELSE "updated"
       IN  /\ orders' = IF outcome \in {"conflicts", "errors"} THEN orders ELSE r.orders
           /\ sync' = [sync EXCEPT ![p] = [st EXCEPT !.pc = "done"] @@ [outcome |-> outcome]]
    /\ UNCHANGED <<drinks, now, req, resp, users>>

\* res.json(results)
SyncRespond(p) ==
    /\ sync[p].pc = "done"
    /\ sync' = [sync EXCEPT ![p] = Idle]
    /\ UNCHANGED <<orders, drinks, now, req, resp, users>>

NoReq == [op |-> "none"]

NoResp == [code |-> 0]

Pending(op) == req.op = op /\ resp = NoResp

\* try { ... } catch { 500 } around the whole handler
SyncBulkOrders(pick, rnd) ==
    /\ Pending("syncBulkOrders")
    /\ IF ~req.body.isArray
       THEN /\ resp' = [code |-> 400]
            /\ UNCHANGED orders
       ELSE LET acc == SyncLoop([orders |-> orders, results |-> NoResults, thrown |-> FALSE],
                                req.body.orders, 1, req.user, now, pick, rnd)
            IN  /\ orders' = acc.orders
                /\ resp' = IF acc.thrown THEN [code |-> 500]
                           ELSE [code |-> 200, data |-> acc.results]
    /\ UNCHANGED <<drinks, now, req, sync, users>>

(***************************************************************************)
(* createOrder (src/controllers/auth.controller.js 542-626).               *)
(***************************************************************************)
\* x || 0 for an optional number
OrZero(d, f) == IF Has(d, f) THEN d[f] ELSE 0

\* whether a drink id casts to an ObjectId; Drink.findById throws a CastError for
\* one that does not
IsObjectId(id) == id # "bad"

\* the index of the first item whose drink Drink.findById does not find, or 0
RECURSIVE FirstMissing(_, _, _)
FirstMissing(items, ds, i) ==
    IF i > Len(items) THEN 0
    ELSE IF items[i].drink \notin DOMAIN ds THEN i
    ELSE FirstMissing(items, ds, i + 1)

\* orderItems: each line priced at the drink's current price
OrderItems(items, ds) ==
    [i \in 1..Len(items) |->
        Item(items[i].drink, ds[items[i].drink].name, items[i].quantity,
             ds[items[i].drink].price,
             ds[items[i].drink].price * items[i].quantity)]

\* the document createOrder hands to Order.create
OrderDoc(u, body, ds) ==
    LET orderItems == OrderItems(body.items, ds)
        totalAmount == SumTotalPrice(orderItems)
        finalAmount == totalAmount - OrZero(body, "discount") + OrZero(body, "tax")
    IN  Merge([user |-> u, items |-> orderItems, totalAmount |-> finalAmount,
               amountPaid |-> body.amountPaid, balance |-> body.amountPaid - finalAmount,
               discount |-> OrZero(body, "discount"), tax |-> OrZero(body, "tax"),
               subtotal |-> totalAmount],
              Opt(body, "notes"))

\* order.save() of a stored document changed in memory to d
OrderSave(os, id, d, t, rnd) ==
    LET d1 == Merge(PreSave(d, rnd), "updatedAt" :> t)
    IN  IF ~Validate(d) THEN [ok |-> FALSE, error |-> "ValidationError"]
        ELSE IF ~UniqueOk(os, id, d1) THEN [ok |-> FALSE, error |-> "E11000"]
        ELSE [ok |-> TRUE, id |-> id, orders |-> Put(os, id, d1)]

CreateOrder(rnd, mailOk) ==
    /\ Pending("createOrder")
    /\ LET body == req.body
           missing == FirstMissing(body.items, drinks, 1)
           doc == OrderDoc(req.user, body, drinks)
           c == OrderCreate(orders, doc, now, rnd)
       IN  IF missing # 0
           THEN /\ resp' = IF IsObjectId(body.items[missing].drink)
                           THEN [code |-> 404, drink |-> body.items[missing].drink]
                           ELSE \* the CastError reaches the outer catch
                                [code |-> 500]
                /\ UNCHANGED orders
           ELSE IF body.amountPaid < doc.totalAmount
           THEN /\ resp' = [code |-> 400, required |-> doc.totalAmount,
                            paid |-> body.amountPaid]
                /\ UNCHANGED orders
           ELSE IF ~c.ok
           THEN \* Order.create throws: the outer catch
                /\ resp' = [code |-> 500]
                /\ UNCHANGED orders
           ELSE IF Has(body, "customerEmail") /\ mailOk
           THEN LET sent == Merge(c.orders[c.id], "emailSent" :> TRUE)
                    sv == OrderSave(c.orders, c.id, sent, now, rnd)
                IN  /\ orders' = IF sv.ok THEN sv.orders ELSE c.orders
                    /\ resp' = [code |-> 201, id |-> c.id,
                                order |-> IF sv.ok THEN sv.orders[c.id] ELSE sent]
           ELSE /\ orders' = c.orders
                /\ resp' = [code |-> 201, id |-> c.id, order |-> c.orders[c.id]]
    /\ UNCHANGED <<drinks, now, req, sync, users>>

(***************************************************************************)
(* getOrderById and updateOrder (auth.controller.js 708-794).              *)
(***************************************************************************)
MayAccess_Mut(u, order) == order.user = u /\ role[u] = "Administrator"

\* the ownership check of both handlers
MayAccess(u, order) == order.user = u \/ role[u] = "Administrator"

GetOrderById ==
    /\ Pending("getOrderById")
    /\ resp' = IF req.id \notin DOMAIN orders THEN [code |-> 404]
               ELSE IF ~MayAccess(req.user, orders[req.id]) THEN [code |-> 403]
               ELSE [code |-> 200, order |-> orders[req.id]]
    /\ UNCHANGED <<orders, drinks, now, req, sync, users>>

allowedUpdates == {"status", "notes", "receiptPrinted"}

Updates_Mut(body) == body

\* updates: the allowed fields that the body has
Updates(body) == [f \in (DOMAIN body) \cap allowedUpdates |-> body[f]]

UpdateOrder ==
    /\ Pending("updateOrder")
    /\ IF req.id \notin DOMAIN orders
       THEN resp' = [code |-> 404] /\ UNCHANGED orders
       ELSE IF ~MayAccess(req.user, orders[req.id])
       THEN resp' = [code |-> 403] /\ UNCHANGED orders
       ELSE LET r == FindByIdAndUpdate(orders, req.id, Updates(req.body), now, TRUE)
            IN  IF r.ok
                THEN orders' = r.orders /\ resp' = [code |-> 200, order |-> r.orders[req.id]]
                ELSE resp' = [code |-> 500] /\ UNCHANGED orders
    /\ UNCHANGED <<drinks, now, req, sync, users>>

(***************************************************************************)
(* resolveSyncConflicts (src/controllers/auth.controller.js 1443-1536).    *)
(***************************************************************************)
\* ...data of a resolution: spreading an absent data adds no field
Data(resolution) == IF Has(resolution, "data") THEN resolution.data ELSE EmptyDoc

ResolveStamp_Mut(t) == [syncStatus |-> "conflict", lastSynced |-> t, updatedAt |-> t]

ResolveStamp(t) == [syncStatus |-> "synced", lastSynced |-> t, updatedAt |-> t]

\* Order.findOne({_id: orderId, user: req.user._id})
FindOwned(os, orderId, u) == orderId \in DOMAIN os /\ os[orderId].user = u

KeepServerVersion_Mut(acc, orderId, t) ==
    [acc EXCEPT !.orders[orderId] = Merge(@, ResolveStamp(t)),
                !.results = Append(@, [orderId |-> orderId, status |-> "kept_server_version"])]

\* the keep_server branch: nothing is written, the entry acknowledges
KeepServerVersion(acc, orderId, t) ==
    [acc EXCEPT !.results = Append(@, [orderId |-> orderId, status |-> "kept_server_version"])]

\* the body of the for loop for one resolution; acc is [orders, results, thrown].
\* use_client hands findByIdAndUpdate a plain object, which Mongoose applies as a
\* $set, so that its write is the one of merge
ResolveOne(acc, resolution, u, t) ==
    IF IsNull(resolution)
    THEN \* the destructuring throws in the try block, resolution.orderId in the catch
         [acc EXCEPT !.thrown = TRUE]
    ELSE
    LET os == acc.orders
        orderId == resolution.orderId
        action == resolution.resolution
        r == FindByIdAndUpdate(os, orderId, Merge(Data(resolution), ResolveStamp(t)), t, FALSE)
        done == IF action = "use_client" THEN "updated_with_client_data" ELSE "merged"
    IN  IF ~FindOwned(os, orderId, u)
        THEN [acc EXCEPT !.results = Append(@,
                 [orderId |-> orderId, status |-> "not_found", error |-> "Order not found"])]
        ELSE IF action = "keep_server"
        THEN KeepServerVersion(acc, orderId, t)
        ELSE IF action \in {"use_client", "merge"}
        THEN IF r.ok
             THEN [acc EXCEPT !.orders = r.orders,
                      !.results = Append(@,
                          [orderId |-> orderId, status |-> done, serverId |-> r.id])]
             ELSE [acc EXCEPT !.results = Append(@,
                          [orderId |-> orderId, status |-> "error", error |-> r.error])]
        ELSE \* no branch for any other action: nothing is pushed
             acc

\* the for loop over req.body.resolutions, from entry i on
RECURSIVE ResolveLoop(_, _, _, _, _)
ResolveLoop(acc, resolutions, i, u, t) ==
    IF i > Len(resolutions) \/ acc.thrown THEN acc
    ELSE ResolveLoop(ResolveOne(acc, resolutions[i], u, t), resolutions, i + 1, u, t)

ResolveSyncConflicts ==
    /\ Pending("resolveSyncConflicts")
    /\ IF ~req.body.isArray
       THEN /\ resp' = [code |-> 400]
            /\ UNCHANGED orders
       ELSE LET acc == ResolveLoop([orders |-> orders, results |-> <<>>, thrown |-> FALSE],
                                   req.body.resolutions, 1, req.user, now)
            IN  /\ orders' = acc.orders
                /\ resp' = IF acc.thrown THEN [code |-> 500]
                           ELSE [code |-> 200, data |-> acc.results]
    /\ UNCHANGED <<drinks, now, req, sync, users>>

(***************************************************************************)
(* deleteOrder and getOrderStats (auth.controller.js 799-963).             *)
(***************************************************************************)
\* the authorize(...roles) middleware lets the request through
Authorize(roles, u) == role[u] \in roles

Remove_Mut(os, id) == [os EXCEPT ![id].status = "cancelled"]

\* Order.findByIdAndDelete(id)
Remove(os, id) == [j \in (DOMAIN os) \ {id} |-> os[j]]

\* router.delete('/:id', authorize('Administrator'), deleteOrder)
DeleteOrder ==
    /\ Pending("deleteOrder")
    /\ IF ~Authorize({"Administrator"}, req.user)
       THEN resp' = [code |-> 403] /\ UNCHANGED orders
       ELSE IF req.id \notin DOMAIN orders
       THEN resp' = [code |-> 404] /\ UNCHANGED orders
       ELSE IF role[req.user] # "Administrator"
       THEN resp' = [code |-> 403] /\ UNCHANGED orders
       ELSE /\ orders' = Remove(orders, req.id)
            /\ resp' = [code |-> 200]
    /\ UNCHANGED <<drinks, now, req, sync, users>>

\* Order.find({user: req.user._id, syncStatus: 'pending'})
PendingOrders(os, u) ==
    {id \in DOMAIN os :
        /\ os[id].user = u
        /\ Has(os[id], "syncStatus") /\ os[id].syncStatus = "pending"}

GetPendingSyncOrders ==
    /\ Pending("getPendingSyncOrders")
    /\ LET found == PendingOrders(orders, req.user)
       IN  resp' = [code |-> 200,
                    data |-> [orders |-> [id \in found |-> orders[id]],
                              count |-> Cardinality(found)]]
    /\ UNCHANGED <<orders, drinks, now, req, sync, users>>

\* Order.updateMany({_id: {$in: orderIds}, user}, {$set: {syncStatus, lastSynced}}),
\* with the updatedAt of the timestamps; modifiedCount counts the changed documents
MarkOrdersAsSynced ==
    /\ Pending("markOrdersAsSynced")
    /\ IF ~req.body.isArray
       THEN resp' = [code |-> 400] /\ UNCHANGED orders
       ELSE LET matched == {id \in DOMAIN orders :
                              /\ \E i \in 1..Len(req.body.orderIds) : req.body.orderIds[i] = id
                              /\ orders[id].user = req.user}
                set == [syncStatus |-> "synced", lastSynced |-> now, updatedAt |-> now]
                os == [id \in DOMAIN orders |->
                         IF id \in matched THEN Merge(orders[id], set) ELSE orders[id]]
            IN  /\ orders' = os
                /\ resp' = [code |-> 200,
                             modifiedCount |->
                                 Cardinality({id \in matched : os[id] # orders[id]})]
    /\ UNCHANGED <<drinks, now, req, sync, users>>

StatsMatch_Mut(os, u) == DOMAIN os

\* { $match: query }: the caller's orders, every order for an Administrator
StatsMatch(os, u) ==
    {id \in DOMAIN os : role[u] = "Administrator" \/ os[id].user = u}

\* { $sum: '$totalAmount' } over the orders of S
RECURSIVE SumTotalAmount(_, _)
SumTotalAmount(os, S) ==
    IF S = {} THEN 0
    ELSE LET id == CHOOSE x \in S : TRUE
         IN  os[id].totalAmount + SumTotalAmount(os, S \ {id})

RECURSIVE SumQuantity(_)
SumQuantity(items) ==
    IF items = <<>> THEN 0 ELSE Head(items).quantity + SumQuantity(Tail(items))

\* { $sum: { $sum: '$items.quantity' } } over the orders of S
RECURSIVE SumItems(_, _)
SumItems(os, S) ==
    IF S = {} THEN 0
    ELSE LET id == CHOOSE x \in S : TRUE
         IN  SumQuantity(os[id].items) + SumItems(os, S \ {id})

RECURSIVE Gcd(_, _)
Gcd(a, b) == IF b = 0 THEN a ELSE Gcd(b, a % b)

\* the number n / d, d > 0, as a fraction in lowest terms
Fraction(n, d) == [num |-> n \div Gcd(n, d), den |-> d \div Gcd(n, d)]

\* the group of the aggregation, or the zeros the handler answers without one
Overall(os, S) ==
    IF S = {}
    THEN [totalOrders |-> 0, totalRevenue |-> 0, totalItems |-> 0,
          avgOrderValue |-> Fraction(0, 1)]
    ELSE [totalOrders |-> Cardinality(S), totalRevenue |-> SumTotalAmount(os, S),
          totalItems |-> SumItems(os, S),
          avgOrderValue |-> Fraction(SumTotalAmount(os, S), Cardinality(S))]

\* of the response, data.overall; the other blocks read the same store
GetOrderStats ==
    /\ Pending("getOrderStats")
    /\ resp' = [code |-> 200, overall |-> Overall(orders, StatsMatch(orders, req.user))]
    /\ UNCHANGED <<orders, drinks, now, req, sync, users>>

(***************************************************************************)
(* updateDrink and deleteDrink (src/controllers/user.controller.js 486-557) *)
(* behind their routes (src/unnamed/part_004 152-173).                     *)
(***************************************************************************)
\* Drink.findOne({_id: id, userId: req.user._id})
FindOwnDrink(ds, id, u) == id \in DOMAIN ds /\ ds[id].userId = u

\* the _id of a new drink: one that no stored drink has
NewDrinkIds == <<"d3", "d4", "d5", "d6">>

NewDrinkId(ds) ==
    NewDrinkIds[CHOOSE i \in 1..Len(NewDrinkIds) :
                   /\ NewDrinkIds[i] \notin DOMAIN ds
                   /\ \A j \in 1..(i - 1) : NewDrinkIds[j] \in DOMAIN ds]

\* Drink.findOne({name, userId: req.user._id}): a drink, active or not
NameTaken(ds, name, u) == \E d \in DOMAIN ds : ds[d].name = name /\ ds[d].userId = u

\* createDrink behind authorize('Administrator', 'Manager', 'Staff')
CreateDrink ==
    /\ Pending("createDrink")
    /\ IF ~Authorize({"Administrator", "Manager", "Staff"}, req.user)
       THEN resp' = [code |-> 403] /\ UNCHANGED drinks
       ELSE IF NameTaken(drinks, req.body.name, req.user)
       THEN resp' = [code |-> 400] /\ UNCHANGED drinks
       ELSE LET id == NewDrinkId(drinks)
                d == Merge(req.body, [userId |-> req.user, isActive |-> TRUE])
            IN  /\ drinks' = [j \in (DOMAIN drinks) \cup {id} |->
                                 IF j = id THEN d ELSE drinks[j]]
                /\ resp' = [code |-> 201, drink |-> d]
    /\ UNCHANGED <<orders, now, req, sync, users>>

\* the body has passed drinkValidation, so that the update validators accept it
UpdateDrink ==
    /\ Pending("updateDrink")
    /\ IF role[req.user] = "Customer"
       THEN resp' = [code |-> 403] /\ UNCHANGED drinks
       ELSE IF ~FindOwnDrink(drinks, req.drinkId, req.user)
       THEN resp' = [code |-> 404] /\ UNCHANGED drinks
       ELSE /\ drinks' = [drinks EXCEPT ![req.drinkId] = Merge(@, req.body)]
            /\ resp' = [code |-> 200, drink |-> drinks'[req.drinkId]]
    /\ UNCHANGED <<orders, now, req, sync, users>>

\* a soft delete: the drink stays in the collection with isActive false
DeleteDrink ==
    /\ Pending("deleteDrink")
    /\ IF ~Authorize({"Administrator", "Manager"}, req.user)
       THEN resp' = [code |-> 403] /\ UNCHANGED drinks
       ELSE IF ~FindOwnDrink(drinks, req.drinkId, req.user)
       THEN resp' = [code |-> 404] /\ UNCHANGED drinks
       ELSE /\ drinks' = [drinks EXCEPT ![req.drinkId].isActive = FALSE]
            /\ resp' = [code |-> 200]
    /\ UNCHANGED <<orders, now, req, sync, users>>

(***************************************************************************)
(* The requests the model draws.                                           *)
(***************************************************************************)
\* an offline order whose totals agree with its items
PayloadConsistent ==
    [items |-> <<Item("d1", "d1", 1, 2, 2)>>, totalAmount |-> 2, amountPaid |-> 3, balance |-> 1]

\* an offline order whose totals do not
PayloadTampered ==
    [items |-> <<Item("d1", "d1", 2, 2, 4)>>, subtotal |-> 9, totalAmount |-> 5,
     amountPaid |-> 3, balance |-> 0]

\* records that carry an updatedAt
TimedRecords ==
    { Merge(r, "updatedAt" :> t) :
        r \in { Merge([localId |-> "L1", orderNumber |-> "N1"], PayloadConsistent),
                Merge([localId |-> "L1", orderNumber |-> "N2"], PayloadTampered),
                Merge([orderNumber |-> "N2"], PayloadConsistent) },
        t \in 0..MaxTime }

\* a record with neither orderNumber, updatedAt nor amounts, and a null entry
SyncRecords == TimedRecords \cup {[localId |-> "L1"], Null}

SyncBodies ==
    {[isArray |-> FALSE]} \cup
    {[isArray |-> TRUE, orders |-> b] :
        b \in UNION {[1..n -> SyncRecords] : n \in 0..MaxBatch}}

SyncRequests == {[op |-> "syncBulkOrders", user |-> u, body |-> b] :
                    u \in Users, b \in SyncBodies}

\* carts: one known drink, two known drinks, a known and an unknown drink in both
\* orders, and a drink id that is no ObjectId
Carts ==
    { <<[drink |-> "d1", quantity |-> 1]>>,
      <<[drink |-> "d1", quantity |-> 2], [drink |-> "d2", quantity |-> 1]>>,
      <<[drink |-> "d1", quantity |-> 1], [drink |-> "d9", quantity |-> 1]>>,
      <<[drink |-> "d9", quantity |-> 1], [drink |-> "d1", quantity |-> 1]>>,
      <<[drink |-> "d1", quantity |-> 1], [drink |-> "bad", quantity |-> 1]>> }

AmountsPaid == {1, 2, 7}

Adjustments == {EmptyDoc, [discount |-> 1], [tax |-> 1]}

\* every body carries a totalAmount of the client's own, which the handler ignores
CreateBodies ==
    { Merge(Merge([items |-> c, amountPaid |-> a, totalAmount |-> 0], adj), em) :
        c \in Carts, a \in AmountsPaid, adj \in Adjustments,
        em \in {EmptyDoc, [customerEmail |-> "c@x"]} }

CreateRequests == {[op |-> "createOrder", user |-> u, body |-> b] :
                      u \in Users, b \in CreateBodies}

\* the ids a request names: those the store can hold and one it never holds
OrderIds == 1..3

GetRequests == {[op |-> "getOrderById", user |-> u, id |-> i] : u \in Users, i \in OrderIds}

UpdateBodies ==
    { [status |-> "bogus"],
      [status |-> "cancelled", notes |-> "n", receiptPrinted |-> TRUE,
       totalAmount |-> 99, orderNumber |-> "N9"],
      [amountPaid |-> 0, user |-> "u2", syncStatus |-> "pending"] }

UpdateRequests == {[op |-> "updateOrder", user |-> u, id |-> i, body |-> b] :
                      u \in Users, i \in OrderIds, b \in UpdateBodies}

\* bulk-sync requests of one record, which fill the store for the other handlers
SeedRequests ==
    {[op |-> "syncBulkOrders", user |-> u, body |-> [isArray |-> TRUE, orders |-> <<r>>]] :
        u \in Users, r \in {x \in TimedRecords : x.updatedAt = MaxTime}}

Requests == SeedRequests \cup CreateRequests \cup GetRequests \cup UpdateRequests

DrinksInit ==
    [d \in {"d1", "d2"} |->
        [name |-> d, price |-> IF d = "d1" THEN 2 ELSE 3, category |-> "Beer",
         userId |-> IF d = "d1" THEN "u2" ELSE "u1", isActive |-> TRUE]]

\* a client sends a request; the server handles one request at a time
Request(r) ==
    /\ req = NoReq
    /\ req' = r
    /\ UNCHANGED <<orders, drinks, now, resp, sync, users>>

\* the client has read the response
Deliver ==
    /\ resp # NoResp
    /\ req' = NoReq
    /\ resp' = NoResp
    /\ UNCHANGED <<orders, drinks, now, sync, users>>

\* the server's clock
Tick == /\ req = NoReq
        /\ now < MaxTime
        /\ now' = now + 1
        /\ UNCHANGED <<orders, drinks, req, resp, sync, users>>

Init == /\ orders = <<>>
        /\ drinks = DrinksInit
        /\ users = <<>>
        /\ now = 0
        /\ req = NoReq
        /\ resp = NoResp
        /\ sync = [p \in Procs |-> Idle]

Next == \/ Tick
        \/ \E r \in Requests : Request(r)
        \/ Deliver
        \/ \E pick \in Picks, rnd \in Draws : SyncBulkOrders(pick, rnd)
        \/ \E rnd \in Draws, mailOk \in BOOLEAN : CreateOrder(rnd, mailOk)
        \/ GetOrderById
        \/ UpdateOrder

\* the order API: createOrder, getOrderById and updateOrder over a synced store
Spec == Init /\ [][Next]_vars

NextSync ==
    \/ Tick
    \/ \E r \in SyncRequests : Request(r)
    \/ Deliver
    \/ \E pick \in Picks, rnd \in Draws : SyncBulkOrders(pick, rnd)

\* the sync reconciler alone, over batches of up to MaxBatch records
SpecSync == Init /\ [][NextSync]_vars

\* the data of a resolution: a changed total; another order's number and a note
ResolveData == {[totalAmount |-> 7], [orderNumber |-> "N2", notes |-> "m"]}

\* resolutions of the first order and of an id the store never holds
Resolutions ==
    {Null,
     [orderId |-> 1, resolution |-> "bogus"],
     [orderId |-> 1, resolution |-> "keep_server"],
     [orderId |-> 3, resolution |-> "keep_server"]}
    \cup {[orderId |-> 1, resolution |-> a] : a \in {"use_client", "merge"}}
    \cup {[orderId |-> 1, resolution |-> a, data |-> d] :
             a \in {"use_client", "merge"}, d \in ResolveData}

ResolveBodies ==
    {[isArray |-> FALSE]} \cup
    {[isArray |-> TRUE, resolutions |-> b] :
        b \in UNION {[1..n -> Resolutions] : n \in 0..MaxBatch}}

ResolveRequests == {[op |-> "resolveSyncConflicts", user |-> u, body |-> b] :
                       u \in Users, b \in ResolveBodies}

NextResolve ==
    \/ Tick
    \/ \E r \in SeedRequests \cup ResolveRequests : Request(r)
    \/ Deliver
    \/ \E pick \in Picks, rnd \in Draws : SyncBulkOrders(pick, rnd)
    \/ ResolveSyncConflicts

\* conflict resolution over a synced store
SpecResolve == Init /\ [][NextResolve]_vars

\* bodies of updateDrink that pass drinkValidation: a new price, a new name
DrinkBodies ==
    { [name |-> "d1", price |-> 4, category |-> "Beer"],
      [name |-> "x", price |-> 2, category |-> "Beer"] }

\* the drink of the synced orders' items, and an id the catalogue lacks
DrinkIds == {"d1", "d9"}

DrinkRequests ==
    {[op |-> "updateDrink", user |-> u, drinkId |-> i, body |-> b] :
        u \in Users, i \in DrinkIds, b \in DrinkBodies}
    \cup {[op |-> "deleteDrink", user |-> u, drinkId |-> i] : u \in Users, i \in DrinkIds}

\* requests of one use_client or merge resolution that carries data
ResolveOneRequests ==
    {[op |-> "resolveSyncConflicts", user |-> u,
      body |-> [isArray |-> TRUE, resolutions |-> <<r>>]] :
        u \in Users, r \in {x \in Resolutions : Has(x, "data")}}

\* the updateOrder requests that name totalAmount next to the allowed fields
TotalUpdateRequests == {r \in UpdateRequests : Has(r.body, "totalAmount")}

NextCatalog ==
    \/ Tick
    \/ \E r \in SeedRequests \cup TotalUpdateRequests \cup DrinkRequests
                \cup ResolveOneRequests :
          Request(r)
    \/ Deliver
    \/ \E pick \in Picks, rnd \in Draws : SyncBulkOrders(pick, rnd)
    \/ ResolveSyncConflicts
    \/ UpdateOrder
    \/ UpdateDrink
    \/ DeleteDrink

\* the catalogue changing under a store of synced orders
SpecCatalog == Init /\ [][NextCatalog]_vars

\* three offline orders of totals 100, 200 and 300
StatRecords ==
    {[localId |-> <<"A1", "A2", "A3">>[i], orderNumber |-> <<"S1", "S2", "S3">>[i],
      receiptNumber |-> <<"R1", "R2", "R3">>[i],
      items |-> <<Item("d1", "d1", i, 100, 100 * i)>>,
      totalAmount |-> 100 * i, amountPaid |-> 100 * i, balance |-> 0,
      updatedAt |-> MaxTime] : i \in 1..3}

StatSeedRequests ==
    {[op |-> "syncBulkOrders", user |-> u, body |-> [isArray |-> TRUE, orders |-> <<r>>]] :
        u \in Users, r \in StatRecords}

\* the ids the store can hold and one it never holds
StatOrderIds == 1..4

DeleteRequests == {[op |-> "deleteOrder", user |-> u, id |-> i] :
                      u \in Users, i \in StatOrderIds}

StatsRequests == {[op |-> "getOrderStats", user |-> u] : u \in Users}

NextStats ==
    \/ Tick
    \/ \E r \in StatSeedRequests \cup DeleteRequests \cup StatsRequests : Request(r)
    \/ Deliver
    \/ \E pick \in Picks, rnd \in Draws : SyncBulkOrders(pick, rnd)
    \/ DeleteOrder
    \/ GetOrderStats

\* statistics and deletion over a store of up to three synced orders
SpecStats == Init /\ [][NextStats]_vars

\* the records of the concurrent handlers: all of one offline order
RaceRecords == {r \in TimedRecords : Has(r, "localId")}

NextRace ==
    \/ Tick
    \/ \E p \in Procs, u \in Users, rec \in RaceRecords : SyncStart(p, u, rec)
    \/ \E p \in Procs, pick \in Picks : SyncFind(p, pick)
    \/ \E p \in Procs, rnd \in Draws : SyncWrite(p, rnd)
    \/ \E p \in Procs : SyncRespond(p)

\* two bulk syncs of one record each, interleaved at their awaits
SpecRace == Init /\ [][NextRace]_vars

\* an offline order whose orderNumber is one the server can generate
CollidingRecords ==
    {Merge([orderNumber |-> GenOrderNumber(1), updatedAt |-> MaxTime], PayloadConsistent)}

CollidingSeedRequests ==
    {[op |-> "syncBulkOrders", user |-> u, body |-> [isArray |-> TRUE, orders |-> <<r>>]] :
        u \in Users, r \in CollidingRecords}

NextCreate ==
    \/ Tick
    \/ \E r \in CollidingSeedRequests \cup CreateRequests : Request(r)
    \/ Deliver
    \/ \E pick \in Picks, rnd \in Draws : SyncBulkOrders(pick, rnd)
    \/ \E rnd \in Draws, mailOk \in BOOLEAN : CreateOrder(rnd, mailOk)

\* createOrder over a store that holds a generated order number
SpecCreate == Init /\ [][NextCreate]_vars

CreateDrinkRequests ==
    {[op |-> "createDrink", user |-> u, body |-> b] : u \in Users, b \in DrinkBodies}

\* orders of one d1 by either user, paid too little and paid enough
DrinkOrderRequests ==
    {r \in CreateRequests :
        /\ r.body.items = <<[drink |-> "d1", quantity |-> 1]>>
        /\ r.body.amountPaid \in {1, 2}
        /\ DOMAIN r.body = {"items", "amountPaid", "totalAmount"}}

\* createDrink is requested while the catalogue holds fewer than MaxDrinks drinks
RequestDrink(r) ==
    /\ Cardinality(DOMAIN drinks) < MaxDrinks
    /\ Request(r)

NextDrinks ==
    \/ \E r \in CreateDrinkRequests : RequestDrink(r)
    \/ \E r \in DrinkRequests \cup DrinkOrderRequests : Request(r)
    \/ Deliver
    \/ CreateDrink
    \/ UpdateDrink
    \/ DeleteDrink
    \/ \E rnd \in Draws, mailOk \in BOOLEAN : CreateOrder(rnd, mailOk)

\* the drink catalogue and the orders priced against it
SpecDrinks == Init /\ [][NextDrinks]_vars

\* records that call themselves pending, older and newer
PendingRecords ==
    { Merge(r, [syncStatus |-> "pending"]) :
        r \in {x \in TimedRecords : x.totalAmount = PayloadConsistent.totalAmount} }

PendingSeedRequests ==
    {[op |-> "syncBulkOrders", user |-> u, body |-> [isArray |-> TRUE, orders |-> <<r>>]] :
        u \in Users, r \in PendingRecords}

PendingUpdateRequests ==
    {[op |-> "updateOrder", user |-> u, id |-> 1,
      body |-> [status |-> "cancelled", syncStatus |-> "pending"]] : u \in Users}

PendingResolveRequests ==
    {[op |-> "resolveSyncConflicts", user |-> u,
      body |-> [isArray |-> TRUE,
                resolutions |-> <<[orderId |-> 1, resolution |-> a,
                                   data |-> [syncStatus |-> "pending", notes |-> "p"]]>>]] :
        u \in Users, a \in {"use_client", "merge"}}

MarkBodies ==
    {[isArray |-> FALSE]} \cup
    {[isArray |-> TRUE, orderIds |-> ids] : ids \in {<<>>, <<1>>, <<1, 2>>}}

MarkRequests == {[op |-> "markOrdersAsSynced", user |-> u, body |-> b] :
                    u \in Users, b \in MarkBodies}

PendingRequests == {[op |-> "getPendingSyncOrders", user |-> u] : u \in Users}

NextPending ==
    \/ Tick
    \/ \E r \in PendingSeedRequests \cup PendingUpdateRequests \cup PendingResolveRequests
                \cup MarkRequests \cup PendingRequests \cup DrinkOrderRequests :
          Request(r)
    \/ Deliver
    \/ \E pick \in Picks, rnd \in Draws : SyncBulkOrders(pick, rnd)
    \/ \E rnd \in Draws, mailOk \in BOOLEAN : CreateOrder(rnd, mailOk)
    \/ UpdateOrder
    \/ ResolveSyncConflicts
    \/ MarkOrdersAsSynced
    \/ GetPendingSyncOrders

\* the writers of syncStatus and the pending list
SpecPending == Init /\ [][NextPending]_vars

(***************************************************************************)
(* Accounts: register, login, logout and refreshToken.  The clock of these *)
(* handlers reads in units of half the lock span, and requests arrive at   *)
(* the instants it shows.                                                  *)
(***************************************************************************)
\* 15 * 60 * 1000 milliseconds, in units of the clock
LockSpan == 2

\* bcrypt.hash, and bcrypt.compare as a comparison of hashes
Hash(password) == <<"bcrypt", password>>

ComparePassword(user, candidatePassword) == Hash(candidatePassword) = user.password

\* jwt.sign({id}, JWT_REFRESH_SECRET, {expiresIn}): the signature is a function of
\* the payload, which holds the id and the time of issue
GenerateRefreshToken(id, t) == [id |-> id, iat |-> t]

GenerateToken(id, t) == [id |-> id, iat |-> t, access |-> TRUE]

IsLocked(user, t) == Has(user, "lockUntil") /\ user.lockUntil > t

Unset(d, f) == [g \in (DOMAIN d) \ {f} |-> d[g]]

IncrementLoginAttempts(user, t) ==
    IF Has(user, "lockUntil") /\ user.lockUntil < t
    THEN Unset([user EXCEPT !.loginAttempts = 1], "lockUntil")
    ELSE LET u1 == [user EXCEPT !.loginAttempts = @ + 1]
         IN  IF u1.loginAttempts >= 5 /\ ~IsLocked(u1, t)
             THEN Merge(u1, "lockUntil" :> (t + LockSpan))
             ELSE u1

ResetLoginAttempts(user) == Unset([user EXCEPT !.loginAttempts = 0], "lockUntil")

\* User.findOne({$or: [{username}, {email}]})
UserExists(us, username, email) ==
    \E u \in DOMAIN us : us[u].username = username \/ us[u].email = email

PutUser(us, id, d) == [j \in (DOMAIN us) \cup {id} |-> IF j = id THEN d ELSE us[j]]

\* a failure of the welcome mail is logged and the registration goes on
Register(mailOk) ==
    /\ Pending("register")
    /\ IF UserExists(users, req.body.username, req.body.email)
       THEN resp' = [code |-> 400] /\ UNCHANGED users
       ELSE LET id == req.body.username
                refreshToken == GenerateRefreshToken(id, now)
                user == [username |-> req.body.username, email |-> req.body.email,
                         password |-> Hash(req.body.password), role |-> "Customer",
                         isActive |-> TRUE, loginAttempts |-> 0,
                         refreshToken |-> refreshToken]
            IN  /\ users' = PutUser(users, id, user)
                /\ resp' = [code |-> 201,
                             data |-> [token |-> GenerateToken(id, now),
                                       refreshToken |-> refreshToken]]
    /\ UNCHANGED <<orders, drinks, now, req, sync>>

Login ==
    /\ Pending("login")
    /\ LET found == {u \in DOMAIN users : users[u].username = req.body.username}
       IN  IF found = {}
           THEN resp' = [code |-> 401] /\ UNCHANGED users
           ELSE LET id == CHOOSE u \in found : TRUE
                    user == users[id]
                IN  IF IsLocked(user, now)
                    THEN resp' = [code |-> 423] /\ UNCHANGED users
                    ELSE IF ~user.isActive
                    THEN resp' = [code |-> 401] /\ UNCHANGED users
                    ELSE IF ~ComparePassword(user, req.body.password)
                    THEN /\ users' = PutUser(users, id, IncrementLoginAttempts(user, now))
                         /\ resp' = [code |-> 401]
                    ELSE LET refreshToken == GenerateRefreshToken(id, now)
                             u1 == Merge(ResetLoginAttempts(user),
                                         [lastLogin |-> now, refreshToken |-> refreshToken])
                         IN  /\ users' = PutUser(users, id, u1)
                             /\ resp' = [code |-> 200,
                                          data |-> [token |-> GenerateToken(id, now),
                                                    refreshToken |-> refreshToken]]
    /\ UNCHANGED <<orders, drinks, now, req, sync>>

Logout ==
    /\ Pending("logout")
    /\ IF req.user \in DOMAIN users
       THEN users' = PutUser(users, req.user, Merge(users[req.user], [refreshToken |-> Null]))
       ELSE UNCHANGED users
    /\ resp' = [code |-> 200]
    /\ UNCHANGED <<orders, drinks, now, req, sync>>

RefreshToken ==
    /\ Pending("refreshToken")
    /\ IF ~Has(req.body, "refreshToken")
       THEN resp' = [code |-> 401] /\ UNCHANGED users
       ELSE LET found == {u \in DOMAIN users :
                            /\ Has(users[u], "refreshToken")
                            /\ users[u].refreshToken = req.body.refreshToken}
            IN  IF found = {}
                THEN resp' = [code |-> 401] /\ UNCHANGED users
                ELSE LET id == CHOOSE u \in found : TRUE
                         newRefreshToken == GenerateRefreshToken(id, now)
                     IN  /\ users' = PutUser(users, id,
                                             Merge(users[id], [refreshToken |-> newRefreshToken]))
                         /\ resp' = [code |-> 200,
                                      data |-> [token |-> GenerateToken(id, now),
                                                refreshToken |-> newRefreshToken]]
    /\ UNCHANGED <<orders, drinks, now, req, sync>>

\* the clock of the account handlers
AuthTick ==
    /\ req = NoReq
    /\ now < AuthMaxTime
    /\ now' = now + 1
    /\ UNCHANGED <<orders, drinks, users, req, resp, sync>>

\* protect admits the request of a user who exists
RequestAs(r) ==
    /\ r.user \in DOMAIN users
    /\ Request(r)

Passwords == {"pw", "no"}

RegisterRequests ==
    {[op |-> "register",
      body |-> [username |-> u, email |-> u, password |-> "pw"]] : u \in Users}

LoginRequests ==
    {[op |-> "login", body |-> [username |-> u, password |-> p]] :
        u \in Users, p \in Passwords}

LogoutRequests == {[op |-> "logout", user |-> u] : u \in Users}

\* the refresh tokens a client can present, and a body without one
Tokens == {GenerateRefreshToken(u, t) : u \in Users, t \in 0..AuthMaxTime}

RefreshRequests ==
    {[op |-> "refreshToken", body |-> EmptyDoc]} \cup
    {[op |-> "refreshToken", body |-> [refreshToken |-> k]] : k \in Tokens}

NextLogin ==
    \/ AuthTick
    \/ \E r \in {x \in RegisterRequests \cup LoginRequests : x.body.username = "u1"} :
          Request(r)
    \/ Deliver
    \/ \E mailOk \in BOOLEAN : Register(mailOk)
    \/ Login

\* one account and its logins
SpecLogin == Init /\ [][NextLogin]_vars

NextTokens ==
    \/ AuthTick
    \/ \E r \in RegisterRequests \cup {x \in LoginRequests : x.body.password = "pw"}
                \cup RefreshRequests :
          Request(r)
    \/ \E r \in LogoutRequests : RequestAs(r)
    \/ Deliver
    \/ \E mailOk \in BOOLEAN : Register(mailOk)
    \/ Login
    \/ Logout
    \/ RefreshToken

\* the refresh tokens of two accounts
SpecTokens == Init /\ [][NextTokens]_vars

(***************************************************************************)
(* The claims.                                                             *)
(***************************************************************************)
\* the request in flight has just been answered
Answered(op) == req.op = op /\ resp # NoResp

\* the step in which the handler of op answers the request in flight
Handles(op) == req.op = op /\ resp = NoResp /\ resp' # NoResp

\* C1: every bulk-sync request whose body.orders is an array is answered with the
\* four buckets, and their lengths add up to the number of records submitted.
C1_BucketsCoverInput ==
    (Answered("syncBulkOrders") /\ req.body.isArray) =>
        /\ resp.code = 200
        /\ Len(resp.data.created) + Len(resp.data.updated)
             + Len(resp.data.conflicts) + Len(resp.data.errors) = Len(req.body.orders)

\* C7: a bulk sync is answered with success whatever its records are, and every
\* null record of the batch has an entry in errors.
C7_BadRecordNeverFailsBatch ==
    (Answered("syncBulkOrders") /\ req.body.isArray) =>
        /\ resp.code = 200
        /\ Len(resp.data.errors)
             >= Cardinality({i \in 1..Len(req.body.orders) : IsNull(req.body.orders[i])})

\* a bulk sync of the single record rec is being answered, and rec, which carries
\* an updatedAt, matches a stored order
SyncsMatchingRecord(rec) ==
    /\ Handles("syncBulkOrders")
    /\ req.body.isArray
    /\ req.body.orders = <<rec>>
    /\ ~IsNull(rec)
    /\ Has(rec, "updatedAt")
    /\ FindOneMatches(orders, rec) # {}

\* the stored order is left as it was and reported in conflicts with its data
ReportedConflict(id, rec) ==
    /\ orders' = orders
    /\ resp'.code = 200
    /\ Len(resp'.data.conflicts) = 1
    /\ resp'.data.conflicts[1].serverId = id
    /\ resp'.data.conflicts[1].serverData = orders[id]
    /\ resp'.data.created = <<>> /\ resp'.data.updated = <<>> /\ resp'.data.errors = <<>>

\* the stored order carries the record's fields and is reported in updated
ReportedUpdated(id, rec) ==
    /\ resp'.code = 200
    /\ Len(resp'.data.updated) = 1
    /\ resp'.data.updated[1].serverId = id
    /\ resp'.data.created = <<>> /\ resp'.data.conflicts = <<>> /\ resp'.data.errors = <<>>
    /\ DOMAIN orders' = DOMAIN orders
    /\ \A f \in (DOMAIN rec) \ {"updatedAt"} : Has(orders'[id], f) /\ orders'[id][f] = rec[f]
    /\ \A j \in (DOMAIN orders) \ {id} : orders'[j] = orders[j]

ReportedDuplicate(id, rec) ==
    /\ \E j \in (DOMAIN orders) \ {id} :
          \E f \in {"localId", "orderNumber", "receiptNumber"} :
             Has(rec, f) /\ Has(orders[j], f) /\ orders[j][f] = rec[f]
    /\ orders' = orders
    /\ resp'.code = 200
    /\ Len(resp'.data.errors) = 1
    /\ resp'.data.created = <<>> /\ resp'.data.updated = <<>> /\ resp'.data.conflicts = <<>>

CartResolves(items) == \A i \in 1..Len(items) : items[i].drink \in DOMAIN drinks

\* the sum over the cart of the drink's current price times the quantity
RECURSIVE CartTotal(_)
CartTotal(items) ==
    IF items = <<>> THEN 0
    ELSE drinks[Head(items).drink].price * Head(items).quantity + CartTotal(Tail(items))

\* subtotal - discount + tax, discount and tax defaulting to 0
Required(body) ==
    CartTotal(body.items) - (IF Has(body, "discount") THEN body.discount ELSE 0)
                          + (IF Has(body, "tax") THEN body.tax ELSE 0)

C4_PaymentChecked ==
    [][(Handles("createOrder") /\ CartResolves(req.body.items)) =>
          IF req.body.amountPaid < Required(req.body)
          THEN /\ resp'.code = 400
               /\ resp'.required = Required(req.body)
               /\ resp'.paid = req.body.amountPaid
               /\ orders' = orders
          ELSE /\ resp'.code = 201
               /\ resp'.order.balance = req.body.amountPaid - Required(req.body)
               /\ resp'.order.balance >= 0]_vars

\* C5: every stored order has subtotal = the sum of its items' totalPrice,
\* totalAmount = subtotal - discount + tax and balance = amountPaid - totalAmount.
C5_StoredTotalsConsistent ==
    \A id \in DOMAIN orders :
        LET o == orders[id]
        IN  /\ Has(o, "subtotal")
            /\ o.subtotal = SumTotalPrice(o.items)
            /\ o.totalAmount = o.subtotal - o.discount + o.tax
            /\ o.balance = o.amountPaid - o.totalAmount

\* a stored order of the caller, stamped by a sync, holds the content of rec
AlreadySynced(rec) ==
    \E id \in DOMAIN orders :
        /\ orders[id].user = req.user
        /\ Has(orders[id], "lastSynced")
        /\ orders[id].syncStatus = "synced"
        /\ \A f \in (DOMAIN rec) \ {"updatedAt"} : Has(orders[id], f) /\ orders[id][f] = rec[f]

\* C6: submitting again a record that has been synced, with the same content and
\* the same updatedAt, is reported in updated and changes no field of any stored
\* order (the stamps lastSynced and updatedAt aside).
C6_ResubmissionIdempotent ==
    [][\A rec \in SyncRecords :
          (/\ Handles("syncBulkOrders")
           /\ req.body.isArray
           /\ req.body.orders = <<rec>>
           /\ ~IsNull(rec)
           /\ Has(rec, "updatedAt")
           /\ AlreadySynced(rec)) =>
              /\ resp'.code = 200
              /\ Len(resp'.data.updated) = 1
              /\ resp'.data.created = <<>>
              /\ resp'.data.conflicts = <<>>
              /\ resp'.data.errors = <<>>
              /\ DOMAIN orders' = DOMAIN orders
              /\ \A id \in DOMAIN orders :
                    \A f \in (DOMAIN orders[id]) \ {"lastSynced", "updatedAt"} :
                       orders'[id][f] = orders[id][f]]_vars

\* C8: no two stored orders share an orderNumber or a receiptNumber, and no step
\* changes the orderNumber or the receiptNumber of a stored order.
C8_NumbersUniqueAndImmutable ==
    [][/\ \A i, j \in DOMAIN orders' :
             i # j => /\ orders'[i].orderNumber # orders'[j].orderNumber
                      /\ orders'[i].receiptNumber # orders'[j].receiptNumber
       /\ \A i \in (DOMAIN orders) \cap (DOMAIN orders') :
             /\ orders'[i].orderNumber = orders[i].orderNumber
             /\ orders'[i].receiptNumber = orders[i].receiptNumber]_vars

\* C9: getOrderById and updateOrder answer 403 to a caller who is neither the
\* order's user nor an Administrator, returning no order and leaving the store as
\* it was; they never answer 403 to the order's user or to an Administrator.
C9_OwnerOrAdministratorOnly ==
    [][(/\ Handles("getOrderById") \/ Handles("updateOrder")
        /\ req.id \in DOMAIN orders) =>
          IF orders[req.id].user = req.user \/ role[req.user] = "Administrator"
          THEN resp'.code # 403
          ELSE /\ resp'.code = 403
               /\ ~Has(resp', "order")
               /\ orders' = orders]_vars

\* C9 witness: updateOrder has refused a caller who is not the order's user
C9_Witness ==
    /\ Answered("updateOrder")
    /\ resp.code = 403
    /\ req.id \in DOMAIN orders
    /\ orders[req.id].user # req.user

ResolvesOwnOrder(res, action) ==
    /\ Handles("resolveSyncConflicts")
    /\ req.body.isArray
    /\ req.body.resolutions = <<res>>
    /\ ~IsNull(res)
    /\ res.resolution = action
    /\ FindOwned(orders, res.orderId, req.user)

\* the fields of an order that a client's record can carry
ClientFields ==
    {"items", "totalAmount", "amountPaid", "balance", "subtotal", "discount", "tax",
     "notes", "status", "paymentMethod", "receiptPrinted", "localId"}

\* C11: resolving with use_client replaces the whole order by data: the stored
\* order then has the value of data in every field of data, syncStatus synced, and
\* in every client field that data lacks either nothing or the schema's default,
\* no longer the previous server value.
C11_UseClientReplacesOrder ==
    [][\A res \in Resolutions :
          ResolvesOwnOrder(res, "use_client") =>
             LET d == Data(res)
                 o == orders'[res.orderId]
             IN  /\ resp'.code = 200
                 /\ Len(resp'.data) = 1
                 /\ resp'.data[1].status = "updated_with_client_data"
                 /\ \A f \in DOMAIN d : Has(o, f) /\ o[f] = d[f]
                 /\ o.syncStatus = "synced"
                 /\ \A f \in ClientFields \ DOMAIN d :
                       \/ ~Has(o, f)
                       \/ Has(SchemaDefaults, f) /\ o[f] = SchemaDefaults[f]]_vars

\* the stored order has the value of data in every field of data, the stamps of
\* the resolution, and its previous value in every other field; no other order
\* has changed
MergedInto(res) ==
    LET d == Data(res)
        o == orders[res.orderId]
        n == orders'[res.orderId]
    IN  /\ DOMAIN orders' = DOMAIN orders
        /\ \A j \in (DOMAIN orders) \ {res.orderId} : orders'[j] = orders[j]
        /\ DOMAIN n = (DOMAIN o) \cup (DOMAIN d) \cup {"syncStatus", "lastSynced", "updatedAt"}
        /\ n.syncStatus = "synced" /\ n.lastSynced = now /\ n.updatedAt = now
        /\ \A f \in (DOMAIN d) \ {"syncStatus", "lastSynced", "updatedAt"} : n[f] = d[f]
        /\ \A f \in (DOMAIN o) \ ((DOMAIN d) \cup {"syncStatus", "lastSynced", "updatedAt"}) :
              n[f] = o[f]

DuplicatesKey(res) ==
    \E j \in (DOMAIN orders) \ {res.orderId} :
       \E f \in {"localId", "orderNumber", "receiptNumber"} :
          Has(Data(res), f) /\ Has(orders[j], f) /\ orders[j][f] = Data(res)[f]

AllKeepServer ==
    /\ req.body.isArray
    /\ req.body.resolutions # <<>>
    /\ \A i \in 1..Len(req.body.resolutions) :
          /\ ~IsNull(req.body.resolutions[i])
          /\ req.body.resolutions[i].resolution = "keep_server"

\* C13: a request of keep_server resolutions leaves every field of every stored
\* order as it was (syncStatus, lastSynced and updatedAt included), and its result
\* entry for an order of the caller's is the acknowledgment kept_server_version.
C13_KeepServerIsNoOp ==
    [][(Handles("resolveSyncConflicts") /\ AllKeepServer) =>
          /\ orders' = orders
          /\ resp'.code = 200
          /\ Len(resp'.data) = Len(req.body.resolutions)
          /\ \A i \in 1..Len(req.body.resolutions) :
                LET res == req.body.resolutions[i]
                IN  /\ resp'.data[i].orderId = res.orderId
                    /\ FindOwned(orders, res.orderId, req.user) =>
                          resp'.data[i] = [orderId |-> res.orderId,
                                           status |-> "kept_server_version"]]_vars

\* C13 witness: a keep_server of a stored order of the caller's, stamped by an
\* earlier sync, has been acknowledged
C13_Witness ==
    /\ Answered("resolveSyncConflicts")
    /\ AllKeepServer
    /\ resp.code = 200
    /\ resp.data[1].status = "kept_server_version"
    /\ FindOwned(orders, req.body.resolutions[1].orderId, req.user)
    /\ Has(orders[req.body.resolutions[1].orderId], "lastSynced")

\* C14: every resolve-conflicts request whose resolutions is an array is answered
\* with success and exactly one result entry per resolution, in the order of the
\* list, whatever the resolutions are.
C14_OneResultPerResolution ==
    (Answered("resolveSyncConflicts") /\ req.body.isArray) =>
        /\ resp.code = 200
        /\ Len(resp.data) = Len(req.body.resolutions)
        /\ \A i \in 1..Len(req.body.resolutions) :
              ~IsNull(req.body.resolutions[i]) =>
                 resp.data[i].orderId = req.body.resolutions[i].orderId

\* C15: a createOrder request with an item whose drink does not resolve, wherever
\* the item sits in the list, is answered 404 naming the first such drink, and no
\* order is stored or changed.
C15_UnresolvedDrinkRejectsOrder ==
    [][(Handles("createOrder") /\ ~CartResolves(req.body.items)) =>
          /\ resp'.code = 404
          /\ \E i \in 1..Len(req.body.items) :
                /\ req.body.items[i].drink \notin DOMAIN drinks
                /\ resp'.drink = req.body.items[i].drink
          /\ orders' = orders]_vars

C16_SnapshotFrozen ==
    [][\A id \in DOMAIN orders :
          /\ id \in DOMAIN orders'
          /\ orders'[id].items = orders[id].items
          /\ orders'[id].totalAmount = orders[id].totalAmount]_vars

\* C18: a deleteOrder request of an Administrator for a stored order removes the
\* order from the store and leaves the others as they were; a request of any other
\* caller, the order's user included, is refused and leaves every order stored
\* and unchanged.
C18_DeleteAdministratorOnly ==
    [][Handles("deleteOrder") =>
          IF role[req.user] = "Administrator" /\ req.id \in DOMAIN orders
          THEN /\ resp'.code = 200
               /\ DOMAIN orders' = (DOMAIN orders) \ {req.id}
               /\ \A j \in DOMAIN orders' : orders'[j] = orders[j]
          ELSE /\ resp'.code \in {403, 404}
               /\ role[req.user] # "Administrator" => resp'.code = 403
               /\ orders' = orders]_vars

\* C18 witness: an Administrator has deleted one order of a store that holds
\* others, and the order is gone
C18_Witness ==
    /\ Answered("deleteOrder")
    /\ resp.code = 200
    /\ req.id \notin DOMAIN orders
    /\ DOMAIN orders # {}

\* the orders the statistics of caller u are about
OwnOrAll(u) == IF role[u] = "Administrator" THEN DOMAIN orders
               ELSE {id \in DOMAIN orders : orders[id].user = u}

\* C19: getOrderStats changes no order, and its overall block has, over the
\* caller's own orders (all orders for an Administrator) as stored at the call,
\* their count as totalOrders, the sum of their totalAmount as totalRevenue and
\* totalRevenue / totalOrders as avgOrderValue, all 0 when there is none; three
\* orders of totals 100, 200 and 300 give 600 and 200.
C19_StatsOverCurrentStore ==
    [][Handles("getOrderStats") =>
          LET S == OwnOrAll(req.user)
              o == resp'.overall
          IN  /\ orders' = orders
              /\ resp'.code = 200
              /\ o.totalOrders = Cardinality(S)
              /\ o.totalRevenue = SumTotalAmount(orders, S)
              /\ o.avgOrderValue.den > 0
              /\ o.avgOrderValue.num * Cardinality(S) = o.avgOrderValue.den * o.totalRevenue
              /\ S = {} => o.totalRevenue = 0 /\ o.avgOrderValue.num = 0
              /\ {orders[id].totalAmount : id \in S} = {100, 200, 300} =>
                    /\ o.totalRevenue = 600
                    /\ o.avgOrderValue = [num |-> 200, den |-> 1]]_vars

\* C19 witness: a caller who is no Administrator and owns two of the three stored
\* orders has been answered with the statistics of those two
C19_Witness ==
    /\ Answered("getOrderStats")
    /\ role[req.user] # "Administrator"
    /\ Cardinality(DOMAIN orders) = 3
    /\ resp.overall.totalOrders = 2
    /\ resp.overall.totalRevenue = 500
    /\ resp.overall.avgOrderValue = [num |-> 250, den |-> 1]

\* C20: a bulk-sync handler decides between conflict and overwrite on the order as
\* it read it, not as it is stored when it writes: if the order it read is not
\* newer than its record it reports updated and the stored order takes the
\* record's fields, whatever another handler has written to the order in
\* between; nothing in the handler prevents that interleaving.
C20_WriteDecidedOnStaleRead ==
    [][\A p \in Procs :
          (sync[p].pc = "found" /\ sync'[p].pc = "done" /\ sync[p].id # 0) =>
             LET st == sync[p]
             IN  IF st.existingOrder.updatedAt > st.rec.updatedAt
                 THEN sync'[p].outcome = "conflicts" /\ orders' = orders
                 ELSE /\ sync'[p].outcome = "updated"
                      /\ \A f \in (DOMAIN st.rec) \ {"updatedAt"} :
                            orders'[st.id][f] = st.rec[f]]_vars

\* C20 witness, the lost update: two handlers have read the same state of the
\* same order, both have reported updated, their records differ in totalAmount,
\* and the stored order has the totalAmount of one of them only
C20_Witness ==
    \E p, q \in Procs :
       /\ p # q
       /\ sync[p].pc = "done" /\ sync[q].pc = "done"
       /\ sync[p].outcome = "updated" /\ sync[q].outcome = "updated"
       /\ sync[p].id = sync[q].id
       /\ sync[p].existingOrder = sync[q].existingOrder
       /\ sync[p].rec.totalAmount # sync[q].rec.totalAmount
       /\ orders[sync[p].id].totalAmount = sync[q].rec.totalAmount

\* C21: when the localId of a synced record is that of stored order A and its
\* orderNumber that of another stored order B, the record is reconciled against A:
\* an entry of conflicts or updated for it names A, and a conflict carries the
\* data of A; B is neither compared nor written.
C21_LocalIdBeforeOrderNumber ==
    [][\A rec \in SyncRecords : \A a, b \in DOMAIN orders :
          (/\ Handles("syncBulkOrders")
           /\ req.body.isArray
           /\ req.body.orders = <<rec>>
           /\ ~IsNull(rec)
           /\ Has(rec, "localId") /\ Has(rec, "orderNumber")
           /\ a # b
           /\ Has(orders[a], "localId") /\ orders[a].localId = rec.localId
           /\ orders[b].orderNumber = rec.orderNumber) =>
              /\ resp'.code = 200
              /\ resp'.data.created = <<>>
              /\ \A i \in 1..Len(resp'.data.conflicts) :
                    /\ resp'.data.conflicts[i].serverId = a
                    /\ resp'.data.conflicts[i].serverData = orders[a]
              /\ \A i \in 1..Len(resp'.data.updated) : resp'.data.updated[i].serverId = a
              /\ orders'[b] = orders[b]]_vars

\* C22: a bulk sync changes a stored order only if a record of the batch carries
\* an updatedAt that is not earlier than the order's stored updatedAt; a record
\* without updatedAt changes no stored order.
C22_ServerNewerNeverOverwritten ==
    [][(Handles("syncBulkOrders") /\ req.body.isArray) =>
          \A id \in DOMAIN orders :
             /\ id \in DOMAIN orders'
             /\ orders'[id] # orders[id] =>
                   \E i \in 1..Len(req.body.orders) :
                      /\ ~IsNull(req.body.orders[i])
                      /\ Has(req.body.orders[i], "updatedAt")
                      /\ req.body.orders[i].updatedAt >= orders[id].updatedAt]_vars

\* the numbers the pre('save') hook can generate
GeneratedOrderNumbers == {GenOrderNumber(r) : r \in Draws}

GeneratedReceiptNumbers == {GenReceiptNumber(r) : r \in Draws}

\* C23: a createOrder request (which names neither number) whose drinks resolve
\* and whose payment suffices succeeds, and the order it stores has a generated
\* orderNumber and a generated receiptNumber.
C23_NumbersAssignedBeforeValidation ==
    [][(/\ Handles("createOrder")
        /\ CartResolves(req.body.items)
        /\ req.body.amountPaid >= Required(req.body)
        /\ \A id \in DOMAIN orders :
              /\ orders[id].orderNumber \notin GeneratedOrderNumbers
              /\ orders[id].receiptNumber \notin GeneratedReceiptNumbers) =>
          /\ resp'.code = 201
          /\ \E id \in (DOMAIN orders') \ (DOMAIN orders) :
                /\ Has(orders'[id], "orderNumber")
                /\ orders'[id].orderNumber \in GeneratedOrderNumbers
                /\ Has(orders'[id], "receiptNumber")
                /\ orders'[id].receiptNumber \in GeneratedReceiptNumbers]_vars

\* C24: when a stored order has one of the order numbers the server can generate
\* and none has the other, a createOrder request whose drinks resolve and whose
\* payment suffices is answered 201 with a new order stored: a collision of the
\* first number drawn is absorbed by drawing once more.
C24_CollisionRetriedOnce ==
    [][(/\ Handles("createOrder")
        /\ CartResolves(req.body.items)
        /\ req.body.amountPaid >= Required(req.body)
        /\ \E id \in DOMAIN orders : orders[id].orderNumber = GenOrderNumber(1)
        /\ \A id \in DOMAIN orders : orders[id].orderNumber # GenOrderNumber(2)) =>
          /\ resp'.code = 201
          /\ \E id \in (DOMAIN orders') \ (DOMAIN orders) :
                orders'[id].orderNumber = GenOrderNumber(2)]_vars

\* C25: no two drinks of the same user have the same name, in every state; and a
\* deleteDrink request removes no drink: it sets isActive to false on the drink it
\* names when the caller owns it, and changes nothing otherwise.
C25_DrinkNamesUniquePerOwner ==
    [][/\ \A a, b \in DOMAIN drinks' :
             (a # b /\ drinks'[a].userId = drinks'[b].userId) =>
                drinks'[a].name # drinks'[b].name
       /\ Handles("deleteDrink") =>
             /\ DOMAIN drinks' = DOMAIN drinks
             /\ \A d \in DOMAIN drinks :
                   IF d = req.drinkId /\ drinks[d].userId = req.user /\ resp'.code = 200
                   THEN drinks' [d] = [drinks[d] EXCEPT !.isActive = FALSE]
                   ELSE drinks'[d] = drinks[d]]_vars

\* C26: a bulk sync requested by one user leaves every order of another user as
\* it was: its fields, and its owner.
C26_SyncLeavesOthersOrders ==
    [][Handles("syncBulkOrders") =>
          \A id \in DOMAIN orders :
             orders[id].user # req.user =>
                /\ id \in DOMAIN orders'
                /\ orders'[id] = orders[id]]_vars

\* C27: in every state every stored order has syncStatus synced, and a
\* getPendingSyncOrders request is answered with an empty list.
C27_NothingPending ==
    /\ \A id \in DOMAIN orders :
          Has(orders[id], "syncStatus") /\ orders[id].syncStatus = "synced"
    /\ Answered("getPendingSyncOrders") =>
          /\ resp.code = 200
          /\ resp.data.count = 0
          /\ DOMAIN resp.data.orders = {}

\* the pending list is empty for a user who owns an order that a resolution with
\* data calling itself pending has written
C27_Witness ==
    /\ Answered("getPendingSyncOrders")
    /\ resp.data.count = 0
    /\ \E id \in DOMAIN orders :
          /\ orders[id].user = req.user
          /\ Has(orders[id], "notes") /\ orders[id].notes = "p"
          /\ orders[id].status = "cancelled"

C29_RefreshTokenSingleUse ==
    [][/\ (Handles("register") \/ Handles("login") \/ Handles("refreshToken")) =>
             (resp'.code \in {200, 201} =>
                 \E u \in DOMAIN users' :
                    /\ users'[u].refreshToken = resp'.data.refreshToken
                    /\ \A w \in (DOMAIN users') \ {u} :
                          w \in DOMAIN users /\ users'[w] = users[w])
       /\ Handles("refreshToken") =>
             /\ resp'.code \in {200, 401}
             /\ resp'.code = 200 <=>
                   /\ Has(req.body, "refreshToken")
                   /\ \E u \in DOMAIN users : users[u].refreshToken = req.body.refreshToken
             /\ resp'.code = 200 =>
                   \A u \in DOMAIN users' : users'[u].refreshToken # req.body.refreshToken
       /\ Handles("logout") =>
             \A k \in Tokens : users'[req.user].refreshToken # k]_vars

\* C30: a createOrder request with an item whose drink is soft-deleted or belongs
\* to another user is rejected as naming a drink that is not there, without
\* pricing it, and stores no order.
C30_OnlyActiveOwnDrinksPriced ==
    [][(/\ Handles("createOrder")
        /\ \E i \in 1..Len(req.body.items) :
              /\ req.body.items[i].drink \in DOMAIN drinks
              /\ \/ ~drinks[req.body.items[i].drink].isActive
                 \/ drinks[req.body.items[i].drink].userId # req.user) =>
          /\ resp'.code = 404
          /\ orders' = orders]_vars

====
